---- MODULE Spec2Model ----
(***************************************************************************)
(* Model of the KPI engine of src/app.py: compute_unit_labor_cost,         *)
(* aggregate_current_month, the calendar helpers and the objective/balance *)
(* arithmetic of the page script.                                          *)
(*                                                                         *)
(* A DataFrame is a record [columns, rows]: the set of its column names    *)
(* and the sequence of its rows, each row a function from the column names *)
(* to cell values.  A float cell is an exact rational [n, d] (d > 0, in    *)
(* lowest terms); NaN is the cell [n |-> 0, d |-> 0].  Rounding of binary  *)
(* floating point is not modelled.                                         *)
(***************************************************************************)
EXTENDS Integers, Sequences, FiniteSets, TLC

VARIABLES df_material, df_bom, df_mov, df_rep, hoy, unit_cost, agg, error, cal, kpi

vars == <<df_material, df_bom, df_mov, df_rep, hoy, unit_cost, agg, error, cal, kpi>>

(***************************************************************************)
(* Float arithmetic                                                        *)
(***************************************************************************)
Abs(i) == IF i < 0 THEN -i ELSE i

RECURSIVE GCD(_, _)
GCD(a, b) == IF b = 0 THEN a ELSE GCD(b, a % b)

NaN == [n |-> 0, d |-> 0]

IsNaN(x) == x.d = 0

\* The float n/d, d # 0.
Rat(n, d) ==
    LET g == GCD(Abs(n), Abs(d))
        s == IF d < 0 THEN -1 ELSE 1
    IN  [n |-> s * (n \div g), d |-> s * (d \div g)]

Num(i) == [n |-> i, d |-> 1]

\* x + y, x * y, x - y on floats: NaN is absorbing.
FAdd(x, y) == IF IsNaN(x) \/ IsNaN(y) THEN NaN ELSE Rat(x.n * y.d + y.n * x.d, x.d * y.d)

FMul(x, y) == IF IsNaN(x) \/ IsNaN(y) THEN NaN ELSE Rat(x.n * y.n, x.d * y.d)

FSub(x, y) == IF IsNaN(x) \/ IsNaN(y) THEN NaN ELSE Rat(x.n * y.d - y.n * x.d, x.d * y.d)

\* x / y on Python floats: a zero divisor raises ZeroDivisionError.
ZeroDivisionError == [n |-> 1, d |-> 0]

FDiv(x, y) ==
    IF y.n = 0 /\ y.d # 0 THEN ZeroDivisionError
    ELSE IF IsNaN(x) \/ IsNaN(y) THEN NaN
    ELSE Rat(x.n * y.d, x.d * y.n)

\* int(x): truncation toward zero.
PyInt(x) == IF x.n >= 0 THEN Num(x.n \div x.d) ELSE Num(-((-x.n) \div x.d))

\* Python truthiness of a number.
Truthy(x) == x.n # 0

(***************************************************************************)
(* DataFrame primitives                                                    *)
(***************************************************************************)
DataFrame(columns, rows) == [columns |-> columns, rows |-> rows]

Empty(df) == Len(df.rows) = 0 \/ df.columns = {}

\* df.rename(columns=m): names that are not columns of df are ignored.
RenamedName(m, c) == IF c \in DOMAIN m THEN m[c] ELSE c

Rename(df, m) ==
    LET cols == {RenamedName(m, c) : c \in df.columns}
        From(c2) == CHOOSE c \in df.columns : RenamedName(m, c) = c2
    IN  DataFrame(cols, [i \in 1..Len(df.rows) |-> [c2 \in cols |-> df.rows[i][From(c2)]]])

\* df[cols]
Project(df, cols) ==
    DataFrame(cols, [i \in 1..Len(df.rows) |-> [c \in cols |-> df.rows[i][c]]])

\* Series.fillna(v)
FillNa(x, v) == IF IsNaN(x) THEN v ELSE x

\* The rows left.merge(right, on=key, how="left") gives for one row of left:
\* one per matching row of right, in right's order; with no match, one row
\* whose right-hand columns are NaN.
JoinRow(l, r) == [c \in (DOMAIN l) \cup (DOMAIN r) |-> IF c \in DOMAIN l THEN l[c] ELSE r[c]]

NaRow(cols) == [c \in cols |-> NaN]

RECURSIVE Matches(_, _, _, _)
Matches(l, rrows, key, i) ==
    IF i > Len(rrows) THEN <<>>
    ELSE IF rrows[i][key] = l[key]
         THEN <<JoinRow(l, rrows[i])>> \o Matches(l, rrows, key, i + 1)
         ELSE Matches(l, rrows, key, i + 1)

RECURSIVE MergeRows(_, _, _, _, _)
MergeRows(lrows, right, key, how, i) ==
    IF i > Len(lrows) THEN <<>>
    ELSE LET m == Matches(lrows[i], right.rows, key, 1)
             own == IF m = <<>> /\ how = "left"
                    THEN <<JoinRow(lrows[i], NaRow(right.columns \ {key}))>>
                    ELSE m
         IN  own \o MergeRows(lrows, right, key, how, i + 1)

Merge(left, right, key, how) ==
    DataFrame(left.columns \cup right.columns, MergeRows(left.rows, right, key, how, 1))

\* Series.sum(): NaN cells are skipped, the empty sum is 0.
RECURSIVE SumFrom(_, _, _)
SumFrom(rows, col, i) ==
    IF i > Len(rows) THEN Num(0)
    ELSE LET rest == SumFrom(rows, col, i + 1)
         IN  IF IsNaN(rows[i][col]) THEN rest ELSE FAdd(rows[i][col], rest)

Sum(df, col) == SumFrom(df.rows, col, 1)

\* The order pandas sorts the group keys in.
SKUS == <<"A", "B", "C">>

\* Mutant of GroupBySum: every key is given the sum of the whole column.
GroupBySum_Whole(df, key, col) ==
    LET present == SelectSeq(SKUS, LAMBDA k : \E i \in 1..Len(df.rows) : df.rows[i][key] = k)
    IN  DataFrame({key, col},
            [j \in 1..Len(present) |-> (key :> present[j]) @@ (col :> SumFrom(df.rows, col, 1))])

\* df.groupby(key, as_index=False)[col].sum(): one row per key present,
\* in key order.
GroupBySum(df, key, col) ==
    LET present == SelectSeq(SKUS, LAMBDA k : \E i \in 1..Len(df.rows) : df.rows[i][key] = k)
    IN  DataFrame({key, col},
            [j \in 1..Len(present) |->
                LET k == present[j]
                    g == SelectSeq(df.rows, LAMBDA r : r[key] = k)
                IN  (key :> k) @@ (col :> SumFrom(g, col, 1))])

(***************************************************************************)
(* compute_unit_labor_cost                                                 *)
(***************************************************************************)
NoTable == DataFrame({}, <<>>)

KeyError(what) == [error |-> "KeyError", value |-> what]

Ok(what) == [error |-> "none", value |-> what]

MatRename == [MATE_CODIGO |-> "OPERACION", MATE_CRM |-> "COSTO_OPERACION"]

BomRename == [MBOM_CODIGO |-> "SKU", MATE_CODIGO |-> "OPERACION", DEBO_CANTIDAD |-> "CANTIDAD_OP"]

\* merged[col].fillna(0.0, inplace=True): the fill is made on the Series that
\* merged[col] returns.  Where that Series shares its data with the frame
\* (pandas without copy-on-write) the frame is filled; where it is a copy
\* (copy-on-write) the frame keeps its NaN.  through says which.
ChainedFillNa(df, col, through) ==
    IF through
    THEN DataFrame(df.columns,
            [i \in 1..Len(df.rows) |-> [df.rows[i] EXCEPT ![col] = FillNa(@, Num(0))]])
    ELSE df

WithPartialCost(df) ==
    DataFrame(df.columns \cup {"COSTO_PARCIAL"},
        [i \in 1..Len(df.rows) |->
            ("COSTO_PARCIAL" :> FMul(df.rows[i]["CANTIDAD_OP"], df.rows[i]["COSTO_OPERACION"]))
            @@ df.rows[i]])

BomMerge(bom, mat) == Merge(bom, Project(mat, {"OPERACION", "COSTO_OPERACION"}), "OPERACION", "left")

compute_unit_labor_cost(material, bom_in, through) ==
    LET mat == Rename(material, MatRename)
        bom == Rename(bom_in, BomRename)
    IN  IF ~({"OPERACION", "COSTO_OPERACION"} \subseteq mat.columns) THEN KeyError(NoTable)
        ELSE IF "OPERACION" \notin bom.columns THEN KeyError(NoTable)
        ELSE IF "CANTIDAD_OP" \notin bom.columns THEN KeyError(NoTable)
        ELSE IF "SKU" \notin bom.columns THEN KeyError(NoTable)
        ELSE LET merged == BomMerge(bom, mat)
                 filled == ChainedFillNa(ChainedFillNa(merged, "COSTO_OPERACION", through),
                                         "CANTIDAD_OP", through)
                 costed == WithPartialCost(filled)
             IN  Ok(Rename(GroupBySum(costed, "SKU", "COSTO_PARCIAL"),
                           [COSTO_PARCIAL |-> "COSTO_MO_UNIT"]))

(***************************************************************************)
(* Calendar: datetime.date, relativedelta, month_bounds                    *)
(***************************************************************************)
Date(y, m, d) == [year |-> y, month |-> m, day |-> d]

Timestamp(y, m, d, h) == [year |-> y, month |-> m, day |-> d, hour |-> h]

NaT == [year |-> 0, month |-> 0, day |-> 0]

IsLeap(y) == (y % 4 = 0 /\ y % 100 # 0) \/ y % 400 = 0

DaysInMonth(y, m) ==
    IF m = 2 THEN (IF IsLeap(y) THEN 29 ELSE 28)
    ELSE IF m \in {4, 6, 9, 11} THEN 30 ELSE 31

\* dt + relativedelta(months=1): the day is clipped to the length of the month.
PlusOneMonth(dt) ==
    LET y == IF dt.month = 12 THEN dt.year + 1 ELSE dt.year
        m == IF dt.month = 12 THEN 1 ELSE dt.month + 1
        d == IF dt.day > DaysInMonth(y, m) THEN DaysInMonth(y, m) ELSE dt.day
    IN  Date(y, m, d)

\* dt + relativedelta(days=1)
PlusOneDay(dt) ==
    IF dt.day < DaysInMonth(dt.year, dt.month) THEN Date(dt.year, dt.month, dt.day + 1)
    ELSE IF dt.month < 12 THEN Date(dt.year, dt.month + 1, 1)
    ELSE Date(dt.year + 1, 1, 1)

\* dt - relativedelta(days=1)
MinusOneDay(dt) ==
    IF dt.day > 1 THEN Date(dt.year, dt.month, dt.day - 1)
    ELSE IF dt.month > 1 THEN Date(dt.year, dt.month - 1, DaysInMonth(dt.year, dt.month - 1))
    ELSE Date(dt.year - 1, 12, 31)

\* a <= b on datetime.date
DateLe(a, b) ==
    \/ a.year < b.year
    \/ a.year = b.year /\ a.month < b.month
    \/ a.year = b.year /\ a.month = b.month /\ a.day <= b.day

month_bounds(dt) ==
    LET start == [dt EXCEPT !.day = 1]
    IN  [start |-> start, end |-> MinusOneDay(PlusOneMonth(start))]

(***************************************************************************)
(* aggregate_current_month                                                 *)
(***************************************************************************)
\* pd.to_datetime(cell, errors="coerce") followed by .dt.date: a timestamp
\* gives its calendar date, anything else gives NaT.
ToDate(cell) ==
    IF "year" \in DOMAIN cell THEN Date(cell.year, cell.month, cell.day) ELSE NaT

normalize_date_col(df, col) ==
    DataFrame(df.columns, [i \in 1..Len(df.rows) |-> [df.rows[i] EXCEPT ![col] = ToDate(@)]])

\* Series >= date and Series <= date on an object column: NaT compares False.
SeriesGe(x, dt) == IF x = NaT THEN FALSE ELSE DateLe(dt, x)

\* Mutant of SeriesLe: the reference date itself is left out.
SeriesLe_Strict(x, dt) == IF x = NaT THEN FALSE ELSE DateLe(x, dt) /\ x # dt

SeriesLe(x, dt) == IF x = NaT THEN FALSE ELSE DateLe(x, dt)

\* Mutant of InMonth: the range written as two negated comparisons, which
\* NaT passes.
InMonth_Negated(x, month_start, today) ==
    ~(x # NaT /\ DateLe(x, month_start) /\ x # month_start) /\ ~(x # NaT /\ DateLe(today, x) /\ x # today)

InMonth(x, month_start, today) == SeriesGe(x, month_start) /\ SeriesLe(x, today)

MonthRows(df, month_start, today) ==
    DataFrame(df.columns, SelectSeq(df.rows, LAMBDA r : InMonth(r["FECHA"], month_start, today)))

MovRename == [AUDI_FECHA_ALTA |-> "FECHA", MATE_CODIGO |-> "SKU", MOST_CANTIDAD |-> "CANTIDAD"]

RepRename ==
    [AUDI_FECHA_ALTA |-> "FECHA", SKU |-> "SKU", CANTIDAD |-> "CANTIDAD",
     PRECIO_FINAL_SIN_DTO |-> "PRECIO", CRM |-> "COSTO_TOTAL", MARGEN_3 |-> "MARGEN"]

\* Mutant of CostJoin: an inner join.
CostJoin_Inner(by_sku, cost) == Merge(by_sku, cost, "SKU", "inner")

\* by_sku.merge(unit_cost, on="SKU", how="left").fillna({"COSTO_MO_UNIT": 0.0})
CostJoin(by_sku, cost) ==
    LET m == Merge(by_sku, cost, "SKU", "left")
    IN  DataFrame(m.columns,
            [i \in 1..Len(m.rows) |->
                [c \in m.columns |->
                    IF c = "COSTO_MO_UNIT" THEN FillNa(m.rows[i][c], Num(0)) ELSE m.rows[i][c]]])

\* Mutant of WithCost: the unit cost alone, not multiplied by the quantity.
WithCost_Unit(df, out) ==
    DataFrame(df.columns \cup {out},
        [i \in 1..Len(df.rows) |-> (out :> df.rows[i]["COSTO_MO_UNIT"]) @@ df.rows[i]])

\* df[out] = df["CANTIDAD"] * df["COSTO_MO_UNIT"]
WithCost(df, out) ==
    DataFrame(df.columns \cup {out},
        [i \in 1..Len(df.rows) |->
            (out :> FMul(df.rows[i]["CANTIDAD"], df.rows[i]["COSTO_MO_UNIT"])) @@ df.rows[i]])

\* int(df[col].sum()) if not df.empty else 0
IntTotal(df, col) == IF ~Empty(df) THEN PyInt(Sum(df, col)) ELSE Num(0)

\* float(df[col].sum()) if not df.empty else 0.0
FloatTotal(df, col) == IF ~Empty(df) THEN Sum(df, col) ELSE Num(0)

\* Mutant of BySkuWithCost: the month rows joined to the unit cost one by
\* one, not grouped by SKU.
BySkuWithCost_Ungrouped(month, cost, out) ==
    WithCost(CostJoin(Project(month, {"SKU", "CANTIDAD"}), cost), out)

\* One side of aggregate_current_month: the frame renamed, its dates
\* normalised, the month rows grouped by SKU and joined to the unit cost.
BySkuWithCost(month, cost, out) ==
    WithCost(CostJoin(GroupBySum(month, "SKU", "CANTIDAD"), cost), out)

Required(df) == {"FECHA", "SKU", "CANTIDAD"} \subseteq df.columns

NoAgg == [prod_by_sku |-> NoTable, ventas_by_sku |-> NoTable]

aggregate_current_month(mov_in, rep_in, cost, today) ==
    LET month_start == month_bounds(today).start
        mov == Rename(mov_in, MovRename)
        rep == Rename(rep_in, RepRename)
    IN  IF ~Required(mov) THEN KeyError(NoAgg)
        ELSE IF ~Required(rep) THEN KeyError(NoAgg)
        ELSE LET mov_month == MonthRows(normalize_date_col(mov, "FECHA"), month_start, today)
                 rep_month == MonthRows(normalize_date_col(rep, "FECHA"), month_start, today)
                 prod_with_cost == BySkuWithCost(mov_month, cost, "COSTO_MO_TOTAL")
                 ventas_with_cost == BySkuWithCost(rep_month, cost, "COSTO_MO_RECUP")
             IN  IF ~Empty(rep_month) /\ "MARGEN" \notin rep.columns THEN KeyError(NoAgg)
                 ELSE Ok([prod_by_sku |-> prod_with_cost,
                          ventas_by_sku |-> ventas_with_cost,
                          total_fabricados |-> IntTotal(prod_with_cost, "CANTIDAD"),
                          costo_mo_fabricado |-> FloatTotal(prod_with_cost, "COSTO_MO_TOTAL"),
                          total_vendidos |-> IntTotal(ventas_with_cost, "CANTIDAD"),
                          costo_mo_recuperado |-> FloatTotal(ventas_with_cost, "COSTO_MO_RECUP"),
                          margen_bruto_actual |-> IF ~Empty(rep_month) THEN Sum(rep_month, "MARGEN")
                                                  ELSE Num(0)])

(***************************************************************************)
(* The page script: cost table, then the month's aggregates (lines 315-316)*)
(***************************************************************************)
Script(material, bom, mov, rep, today, through) ==
    LET uc == compute_unit_labor_cost(material, bom, through)
    IN  IF uc.error # "none"
        THEN [unit_cost |-> NoTable, agg |-> NoAgg, error |-> uc.error]
        ELSE LET a == aggregate_current_month(mov, rep, uc.value, today)
             IN  [unit_cost |-> uc.value, agg |-> a.value, error |-> a.error]

\* A run of the script on the tables given; which way the chained fillna
\* goes depends on the pandas installed, so either is possible.
Rerun(material, bom, mov, rep, today) ==
    \E through \in BOOLEAN :
        LET run == Script(material, bom, mov, rep, today, through)
        IN  /\ unit_cost' = run.unit_cost
            /\ agg' = run.agg
            /\ error' = run.error

FirstRun(material, bom, mov, rep, today) ==
    \E through \in BOOLEAN :
        LET run == Script(material, bom, mov, rep, today, through)
        IN  /\ unit_cost = run.unit_cost
            /\ agg = run.agg
            /\ error = run.error

(***************************************************************************)
(* The sheets the script is run on                                         *)
(***************************************************************************)
MaxRows == 2

MAT_COLUMNS == {"MATE_CODIGO", "MATE_CRM"}

BOM_COLUMNS == {"MBOM_CODIGO", "MATE_CODIGO", "DEBO_CANTIDAD"}

MOV_COLUMNS == {"AUDI_FECHA_ALTA", "MATE_CODIGO", "MOST_CANTIDAD"}

REP_COLUMNS == {"AUDI_FECHA_ALTA", "SKU", "CANTIDAD", "MARGEN_3"}

HOYS == {Date(2024, 2, 1), Date(2024, 2, 15)}

\* The date cells: the last hour of January, the first of February, the
\* last hour of 15 February, and a text that is no date.
FECHAS ==
    {Timestamp(2024, 1, 31, 23), Timestamp(2024, 2, 1, 0), Timestamp(2024, 2, 15, 23),
     [text |-> "n/a"]}

CANTIDADES == {NaN, Num(-1), Rat(3, 2)}

MARGENES == {NaN, Num(50)}

MovRows ==
    {[AUDI_FECHA_ALTA |-> f, MATE_CODIGO |-> s, MOST_CANTIDAD |-> q] :
        f \in FECHAS, s \in {"A", "B"}, q \in CANTIDADES}

RepRows ==
    {[AUDI_FECHA_ALTA |-> f, SKU |-> s, CANTIDAD |-> q, MARGEN_3 |-> g] :
        f \in FECHAS, s \in {"A", "B"}, q \in CANTIDADES \ {Num(-1)}, g \in MARGENES}

\* A master/BOM pair: A costs 1 x 3 + 2 x (no cost) = 3, C costs 2 x 3 = 6,
\* B has no BOM line.
Material0 ==
    DataFrame(MAT_COLUMNS,
        << [MATE_CODIGO |-> "op1", MATE_CRM |-> Num(3)],
           [MATE_CODIGO |-> "op2", MATE_CRM |-> NaN] >>)

Bom0 ==
    DataFrame(BOM_COLUMNS,
        << [MBOM_CODIGO |-> "A", MATE_CODIGO |-> "op1", DEBO_CANTIDAD |-> Num(1)],
           [MBOM_CODIGO |-> "A", MATE_CODIGO |-> "op2", DEBO_CANTIDAD |-> Num(2)],
           [MBOM_CODIGO |-> "C", MATE_CODIGO |-> "op1", DEBO_CANTIDAD |-> Num(2)] >>)

\* The row as the sheet holds it: the sheet's columns only.
Cells(row, columns) == [c \in columns |-> row[c]]

AppendRow(df, row) == DataFrame(df.columns, Append(df.rows, Cells(row, df.columns)))

Idle == [phase |-> "idle"]

\* The page's second step alone: compute_unit_labor_cost is memoised on its
\* arguments (st.cache_data, line 139), so with the master and the BOM as
\* they were its table is the one of the last run; a call that raised is
\* not memoised and raises again.
RerunMonth(mov, rep, today) ==
    IF unit_cost = NoTable
    THEN UNCHANGED <<unit_cost, agg, error>>
    ELSE LET a == aggregate_current_month(mov, rep, unit_cost, today)
         IN  /\ agg' = a.value
             /\ error' = a.error
             /\ UNCHANGED unit_cost

\* A movement is added to the sheet and the page is run again.
AddMov(max) ==
    /\ Len(df_mov.rows) + Len(df_rep.rows) < max
    /\ \E r \in MovRows :
        /\ df_mov' = AppendRow(df_mov, r)
        /\ RerunMonth(df_mov', df_rep, hoy)
    /\ UNCHANGED <<df_material, df_bom, df_rep, hoy, cal, kpi>>

\* An order line is added to the sheet and the page is run again.
AddRep(max) ==
    /\ Len(df_mov.rows) + Len(df_rep.rows) < max
    /\ \E r \in RepRows :
        /\ df_rep' = AppendRow(df_rep, r)
        /\ RerunMonth(df_mov, df_rep', hoy)
    /\ UNCHANGED <<df_material, df_bom, df_mov, hoy, cal, kpi>>

Init ==
    /\ df_material = Material0
    /\ df_bom = Bom0
    /\ df_mov = DataFrame(MOV_COLUMNS, <<>>)
    /\ df_rep = DataFrame(REP_COLUMNS, <<>>)
    /\ hoy \in HOYS
    /\ FirstRun(df_material, df_bom, df_mov, df_rep, hoy)
    /\ cal = Idle
    /\ kpi = Idle

Next == AddMov(MaxRows) \/ AddRep(MaxRows)

Spec == Init /\ [][Next]_vars

(***************************************************************************)
(* What the claims speak of, stated on the sheets themselves               *)
(***************************************************************************)
Val0(x) == IF IsNaN(x) THEN Num(0) ELSE x

Lt(x, y) == x.n * y.d < y.n * x.d

\* The cell is a date of today's month, from the 1st to today.
InWindow(cell, today) ==
    /\ "year" \in DOMAIN cell
    /\ cell.year = today.year
    /\ cell.month = today.month
    /\ 1 <= cell.day /\ cell.day <= today.day

\* The rows of the sheet for SKU s (any SKU when s = "*") dated in the window.
WindowRows(df, skucol, s, today) ==
    SelectSeq(df.rows, LAMBDA r : (s = "*" \/ r[skucol] = s) /\ InWindow(r["AUDI_FECHA_ALTA"], today))

\* The sum of column col over rows, a missing cell counting 0.
RECURSIVE Total(_, _)
Total(rows, col) ==
    IF rows = <<>> THEN Num(0) ELSE FAdd(Val0(Head(rows)[col]), Total(Tail(rows), col))

RowsFor(df, s) == SelectSeq(df.rows, LAMBDA r : r["SKU"] = s)

SkuSet == {"A", "B", "C"}

\* The quantity the aggregate table holds for SKU s, 0 when it has no row.
QtyOf(table, s) == Total(RowsFor(table, s), "CANTIDAD")

\* C2: for every reference date, a movement or sales row counts in the month's
\* aggregates exactly when its calendar date lies from the 1st of the
\* reference date's month to the reference date, both ends included: each
\* SKU has an aggregate row exactly when it has such a row, its quantity is
\* the sum over those rows alone, and the margin is the sum over them.
C2_MonthWindowInclusive ==
    /\ error = "none"
    /\ \A s \in SkuSet :
        /\ RowsFor(agg.prod_by_sku, s) # <<>> <=> WindowRows(df_mov, "MATE_CODIGO", s, hoy) # <<>>
        /\ QtyOf(agg.prod_by_sku, s) = Total(WindowRows(df_mov, "MATE_CODIGO", s, hoy), "MOST_CANTIDAD")
        /\ RowsFor(agg.ventas_by_sku, s) # <<>> <=> WindowRows(df_rep, "SKU", s, hoy) # <<>>
        /\ QtyOf(agg.ventas_by_sku, s) = Total(WindowRows(df_rep, "SKU", s, hoy), "CANTIDAD")
    /\ agg.margen_bruto_actual = Total(WindowRows(df_rep, "SKU", "*", hoy), "MARGEN_3")

\* Two movements of A, one in the last hour of the reference date and one
\* on the 1st, another day, are both counted.
C2_Witness ==
    /\ hoy.day > 1
    /\ Len(df_mov.rows) = 2
    /\ \E i, j \in 1..2 :
        /\ df_mov.rows[i] = [AUDI_FECHA_ALTA |-> Timestamp(hoy.year, hoy.month, hoy.day, 23),
                             MATE_CODIGO |-> "A", MOST_CANTIDAD |-> Rat(3, 2)]
        /\ df_mov.rows[j] = [AUDI_FECHA_ALTA |-> Timestamp(hoy.year, hoy.month, 1, 0),
                             MATE_CODIGO |-> "A", MOST_CANTIDAD |-> Rat(3, 2)]
    /\ QtyOf(agg.prod_by_sku, "A") = Num(3)

\* C3: the scalar totals are the sums of the per-SKU columns (units produced,
\* labor cost fabricated, units sold, labor cost recovered) and the margin
\* total is the sum of the raw margin of the sales rows in the window; each
\* is 0 when there is nothing to sum.
C3_TotalsAreSums ==
    error = "none" =>
        /\ agg.total_fabricados = Total(agg.prod_by_sku.rows, "CANTIDAD")
        /\ agg.costo_mo_fabricado = Total(agg.prod_by_sku.rows, "COSTO_MO_TOTAL")
        /\ agg.total_vendidos = Total(agg.ventas_by_sku.rows, "CANTIDAD")
        /\ agg.costo_mo_recuperado = Total(agg.ventas_by_sku.rows, "COSTO_MO_RECUP")
        /\ agg.margen_bruto_actual = Total(WindowRows(df_rep, "SKU", "*", hoy), "MARGEN_3")

\* C4: a SKU with rows in the window and no row in the unit-cost table keeps
\* its aggregate row: the summed quantity, unit cost 0 and cost 0; nothing is
\* raised.
C4_UncostedSkuKept ==
    /\ error = "none"
    /\ \A s \in SkuSet :
        RowsFor(unit_cost, s) = <<>> =>
            /\ WindowRows(df_mov, "MATE_CODIGO", s, hoy) # <<>> =>
                 RowsFor(agg.prod_by_sku, s) =
                    << [SKU |-> s,
                        CANTIDAD |-> Total(WindowRows(df_mov, "MATE_CODIGO", s, hoy), "MOST_CANTIDAD"),
                        COSTO_MO_UNIT |-> Num(0), COSTO_MO_TOTAL |-> Num(0)] >>
            /\ WindowRows(df_rep, "SKU", s, hoy) # <<>> =>
                 RowsFor(agg.ventas_by_sku, s) =
                    << [SKU |-> s,
                        CANTIDAD |-> Total(WindowRows(df_rep, "SKU", s, hoy), "CANTIDAD"),
                        COSTO_MO_UNIT |-> Num(0), COSTO_MO_RECUP |-> Num(0)] >>

\* Two sales of B in the window, B in no BOM line: quantity 3, costs 0, and
\* the margin total 100.
C4_Witness ==
    /\ RowsFor(unit_cost, "B") = <<>>
    /\ Len(WindowRows(df_rep, "SKU", "B", hoy)) = 2
    /\ RowsFor(agg.ventas_by_sku, "B") =
            << [SKU |-> "B", CANTIDAD |-> Num(3), COSTO_MO_UNIT |-> Num(0), COSTO_MO_RECUP |-> Num(0)] >>
    /\ agg.margen_bruto_actual = Num(100)

\* The number of rows an aggregate table must hold for a SKU: one when the
\* SKU has a row of the sheet in the window, none otherwise.
RowsDue(df, skucol, s, today) == IF WindowRows(df, skucol, s, today) # <<>> THEN 1 ELSE 0

\* Every row of the table is a row of one of the SKUs.
OnlySkus(table) == \A i \in 1..Len(table.rows) : table.rows[i]["SKU"] \in SkuSet

\* C11: after compute_unit_labor_cost and aggregate_current_month the
\* unit-cost table has at most one row per SKU; the production and the sales
\* aggregate tables each have exactly one row for every SKU with a row in
\* the window and no row for any other SKU, a SKU that only the unit-cost
\* table knows included; with no row in the window the aggregate table is
\* empty and nothing is raised.
C11_OneRowPerSku ==
    /\ error = "none"
    /\ OnlySkus(unit_cost) /\ OnlySkus(agg.prod_by_sku) /\ OnlySkus(agg.ventas_by_sku)
    /\ \A s \in SkuSet :
        /\ Len(RowsFor(unit_cost, s)) <= 1
        /\ Len(RowsFor(agg.prod_by_sku, s)) = RowsDue(df_mov, "MATE_CODIGO", s, hoy)
        /\ Len(RowsFor(agg.ventas_by_sku, s)) = RowsDue(df_rep, "SKU", s, hoy)
    /\ WindowRows(df_mov, "MATE_CODIGO", "*", hoy) = <<>> => agg.prod_by_sku.rows = <<>>
    /\ WindowRows(df_rep, "SKU", "*", hoy) = <<>> => agg.ventas_by_sku.rows = <<>>

\* Two movements of A in the window make one production row; A has two BOM
\* lines and one unit-cost row; C has a unit-cost row and no aggregate row;
\* no sale is in the window and the sales table is empty.
C11_Witness ==
    /\ Len(WindowRows(df_mov, "MATE_CODIGO", "A", hoy)) = 2
    /\ Len(RowsFor(agg.prod_by_sku, "A")) = 1
    /\ Len(SelectSeq(df_bom.rows, LAMBDA r : r["MBOM_CODIGO"] = "A")) = 2
    /\ Len(RowsFor(unit_cost, "A")) = 1
    /\ Len(RowsFor(unit_cost, "C")) = 1
    /\ RowsFor(agg.prod_by_sku, "C") = <<>>
    /\ WindowRows(df_rep, "SKU", "*", hoy) = <<>>
    /\ agg.ventas_by_sku.rows = <<>>
    /\ error = "none"

\* The unit cost the cost table gives SKU s, 0 when it has no row.
UnitCostOf(s) == Total(RowsFor(unit_cost, s), "COSTO_MO_UNIT")

IsDate(cell) == "year" \in DOMAIN cell

WithoutBadDates(df) ==
    DataFrame(df.columns, SelectSeq(df.rows, LAMBDA r : IsDate(r["AUDI_FECHA_ALTA"])))

\* C7: rows whose date does not parse raise nothing and change nothing: the
\* aggregates are those of the same sheets with these rows removed.
C7_BadDatesExcluded ==
    /\ error = "none"
    /\ agg = aggregate_current_month(WithoutBadDates(df_mov), WithoutBadDates(df_rep),
                                      unit_cost, hoy).value

\* A movement with no date before a movement in the window, and a sale with
\* no date.
C7_Witness ==
    /\ Len(df_mov.rows) = 2
    /\ ~IsDate(df_mov.rows[1]["AUDI_FECHA_ALTA"])
    /\ df_mov.rows[1]["MOST_CANTIDAD"] = Rat(3, 2)
    /\ InWindow(df_mov.rows[2]["AUDI_FECHA_ALTA"], hoy)
    /\ df_mov.rows[1]["MATE_CODIGO"] = df_mov.rows[2]["MATE_CODIGO"]
    /\ agg.total_fabricados = Num(-1)

(***************************************************************************)
(* Sheets that already hold a row of A and a row of B in the window        *)
(***************************************************************************)
MaxAdded == 1

SeedMov(qa) ==
    DataFrame(MOV_COLUMNS,
        << [AUDI_FECHA_ALTA |-> Timestamp(2024, 2, 1, 0), MATE_CODIGO |-> "A", MOST_CANTIDAD |-> qa],
           [AUDI_FECHA_ALTA |-> Timestamp(2024, 2, 1, 0), MATE_CODIGO |-> "B", MOST_CANTIDAD |-> Rat(3, 2)] >>)

SeedRep(qa) ==
    DataFrame(REP_COLUMNS,
        << [AUDI_FECHA_ALTA |-> Timestamp(2024, 2, 1, 0), SKU |-> "A", CANTIDAD |-> qa, MARGEN_3 |-> Num(50)],
           [AUDI_FECHA_ALTA |-> Timestamp(2024, 2, 1, 0), SKU |-> "B", CANTIDAD |-> Rat(3, 2), MARGEN_3 |-> Num(50)] >>)

InitSeeded ==
    /\ df_material = Material0
    /\ df_bom = Bom0
    /\ \E qa \in CANTIDADES : df_mov = SeedMov(qa)
    /\ \E qa \in CANTIDADES : df_rep = SeedRep(qa)
    /\ hoy \in HOYS
    /\ FirstRun(df_material, df_bom, df_mov, df_rep, hoy)
    /\ cal = Idle
    /\ kpi = Idle

SeededRows == Len(SeedMov(NaN).rows) + Len(SeedRep(NaN).rows)

NextSeeded == AddMov(SeededRows + MaxAdded) \/ AddRep(SeededRows + MaxAdded)

SpecSeeded == InitSeeded /\ [][NextSeeded]_vars

LastRow(df) == df.rows[Len(df.rows)]

\* after is before with one row more, dated in the window, for SKU s, which
\* had rows in the window already.
AddedInWindow(before, after, skucol, s, today) ==
    /\ Len(after.rows) = Len(before.rows) + 1
    /\ after.rows = Append(before.rows, LastRow(after))
    /\ LastRow(after)[skucol] = s
    /\ InWindow(LastRow(after)["AUDI_FECHA_ALTA"], today)
    /\ WindowRows(before, skucol, s, today) # <<>>

\* The aggregate rows of every SKU but s, in both tables.
OthersOf(a, s) ==
    [t \in SkuSet \ {s} |-> <<RowsFor(a.prod_by_sku, t), RowsFor(a.ventas_by_sku, t)>>]

\* C8 as claimed: a row added in the window for a SKU that has rows there
\* strictly increases the SKU's aggregated quantity and leaves every other
\* SKU's aggregates as they were.
C8_AddedRowIncreases ==
    [][\A s \in SkuSet :
        /\ AddedInWindow(df_mov, df_mov', "MATE_CODIGO", s, hoy) =>
              /\ Lt(QtyOf(agg.prod_by_sku, s), QtyOf(agg'.prod_by_sku, s))
              /\ OthersOf(agg', s) = OthersOf(agg, s)
        /\ AddedInWindow(df_rep, df_rep', "SKU", s, hoy) =>
              /\ Lt(QtyOf(agg.ventas_by_sku, s), QtyOf(agg'.ventas_by_sku, s))
              /\ OthersOf(agg', s) = OthersOf(agg, s)]_vars

\* C8 as amended: the added row changes the SKU's aggregated quantity by
\* its own quantity, a missing one counting 0, so the quantity strictly
\* increases when the row's quantity is positive; every other SKU's
\* aggregates are left as they were.
C8_AddedRowAddsItsQuantity ==
    [][\A s \in SkuSet :
        /\ AddedInWindow(df_mov, df_mov', "MATE_CODIGO", s, hoy) =>
              LET q == Val0(LastRow(df_mov')["MOST_CANTIDAD"])
              IN  /\ error' = "none"
                  /\ QtyOf(agg'.prod_by_sku, s) = FAdd(QtyOf(agg.prod_by_sku, s), q)
                  /\ Lt(Num(0), q) => Lt(QtyOf(agg.prod_by_sku, s), QtyOf(agg'.prod_by_sku, s))
                  /\ OthersOf(agg', s) = OthersOf(agg, s)
        /\ AddedInWindow(df_rep, df_rep', "SKU", s, hoy) =>
              LET q == Val0(LastRow(df_rep')["CANTIDAD"])
              IN  /\ error' = "none"
                  /\ QtyOf(agg'.ventas_by_sku, s) = FAdd(QtyOf(agg.ventas_by_sku, s), q)
                  /\ Lt(Num(0), q) => Lt(QtyOf(agg.ventas_by_sku, s), QtyOf(agg'.ventas_by_sku, s))
                  /\ OthersOf(agg', s) = OthersOf(agg, s)]_vars

\* A third movement, of A, in the window, quantity 3/2, after a movement of
\* A with quantity -1 and one of B: A has 1/2 and B keeps its 3/2.
C8_Witness ==
    /\ Len(df_mov.rows) = 3
    /\ df_mov.rows[1]["MOST_CANTIDAD"] = Num(-1)
    /\ df_mov.rows[3]["MATE_CODIGO"] = "A"
    /\ df_mov.rows[3]["MOST_CANTIDAD"] = Rat(3, 2)
    /\ InWindow(df_mov.rows[3]["AUDI_FECHA_ALTA"], hoy)
    /\ QtyOf(agg.prod_by_sku, "A") = Rat(1, 2)
    /\ QtyOf(agg.prod_by_sku, "B") = Rat(3, 2)

(***************************************************************************)
(* Masters and BOMs of every content                                       *)
(***************************************************************************)
MaxMat == 2

MaxBom == 2

MatRows ==
    {[MATE_CODIGO |-> o, MATE_CRM |-> c] : o \in {"op1", "op2"}, c \in {NaN, Num(0), Num(3)}}

BomRows ==
    {[MBOM_CODIGO |-> s, MATE_CODIGO |-> o, DEBO_CANTIDAD |-> q] :
        s \in {"A", "B"}, o \in {"op1", "op2"}, q \in {NaN, Num(1), Num(2)}}

\* An operation is added to the master and the page is run again.
AddMaterial ==
    /\ Len(df_material.rows) < MaxMat
    /\ \E r \in MatRows :
        /\ df_material' = AppendRow(df_material, r)
        /\ Rerun(df_material', df_bom, df_mov, df_rep, hoy)
    /\ UNCHANGED <<df_bom, df_mov, df_rep, hoy, cal, kpi>>

\* A line is added to the BOM and the page is run again.
AddBom ==
    /\ Len(df_bom.rows) < MaxBom
    /\ \E r \in BomRows :
        /\ df_bom' = AppendRow(df_bom, r)
        /\ Rerun(df_material, df_bom', df_mov, df_rep, hoy)
    /\ UNCHANGED <<df_material, df_mov, df_rep, hoy, cal, kpi>>

InitCost ==
    /\ df_material = DataFrame(MAT_COLUMNS, <<>>)
    /\ df_bom = DataFrame(BOM_COLUMNS, <<>>)
    /\ df_mov = SeedMov(Rat(3, 2))
    /\ df_rep = SeedRep(Rat(3, 2))
    /\ hoy = Date(2024, 2, 15)
    /\ FirstRun(df_material, df_bom, df_mov, df_rep, hoy)
    /\ cal = Idle
    /\ kpi = Idle

NextCost == AddMaterial \/ AddBom

SpecCost == InitCost /\ [][NextCost]_vars

\* The costs the master gives operation o: one for each of its rows, a
\* missing cost counting 0; the single cost 0 when it has no row.
CostsOf(o) ==
    LET found == {i \in 1..Len(df_material.rows) : df_material.rows[i]["MATE_CODIGO"] = o}
    IN  IF found = {} THEN {Num(0)}
        ELSE {Val0(df_material.rows[i]["MATE_CRM"]) : i \in found}

\* The sums of one term, quantity x cost, for each of the BOM lines.
RECURSIVE LineSums(_)
LineSums(lines) ==
    IF lines = <<>> THEN {Num(0)}
    ELSE {FAdd(FMul(Val0(Head(lines)["DEBO_CANTIDAD"]), c), rest) :
            c \in CostsOf(Head(lines)["MATE_CODIGO"]), rest \in LineSums(Tail(lines))}

BomLines(s) == SelectSeq(df_bom.rows, LAMBDA r : r["MBOM_CODIGO"] = s)

\* C1: the unit-cost table has, for each SKU of the BOM, the sum over the
\* SKU's BOM lines of quantity x cost, one term for each line, a missing
\* quantity or cost and an operation the master lacks counting 0; an empty
\* BOM gives an empty table.
C1_UnitCostIsSumOverBomLines ==
    /\ error = "none"
    /\ \A s \in SkuSet :
        IF BomLines(s) = <<>> THEN RowsFor(unit_cost, s) = <<>>
        ELSE /\ Len(RowsFor(unit_cost, s)) = 1
             /\ RowsFor(unit_cost, s)[1]["COSTO_MO_UNIT"] \in LineSums(BomLines(s))

\* C1 where the master has one row at most for each operation.
C1_HoldsForKeyedMaster ==
    (\A i, j \in 1..Len(df_material.rows) :
        df_material.rows[i]["MATE_CODIGO"] = df_material.rows[j]["MATE_CODIGO"] => i = j)
    => C1_UnitCostIsSumOverBomLines

(***************************************************************************)
(* Sheets that lack a column                                               *)
(***************************************************************************)
MaxSchemaRows == 1

Lacking(columns, rows, c) == DataFrame(columns \ {c}, [i \in 1..Len(rows) |-> Cells(rows[i], columns \ {c})])

InitSchema ==
    /\ \E c \in MAT_COLUMNS \cup {"-"} : df_material = Lacking(MAT_COLUMNS, Material0.rows, c)
    /\ \E c \in BOM_COLUMNS \cup {"-"} : df_bom = Lacking(BOM_COLUMNS, Bom0.rows, c)
    /\ \E c \in MOV_COLUMNS \cup {"-"} : df_mov = Lacking(MOV_COLUMNS, <<>>, c)
    /\ \E c \in REP_COLUMNS \cup {"-"} : df_rep = Lacking(REP_COLUMNS, <<>>, c)
    /\ Cardinality((MAT_COLUMNS \ df_material.columns) \cup (BOM_COLUMNS \ df_bom.columns)
                    \cup (MOV_COLUMNS \ df_mov.columns) \cup (REP_COLUMNS \ df_rep.columns)) <= 1
    /\ hoy \in HOYS
    /\ FirstRun(df_material, df_bom, df_mov, df_rep, hoy)
    /\ cal = Idle
    /\ kpi = Idle

NextSchema == AddMov(MaxSchemaRows) \/ AddRep(MaxSchemaRows)

SpecSchema == InitSchema /\ [][NextSchema]_vars

ColumnMissing ==
    \/ ~(MAT_COLUMNS \subseteq df_material.columns)
    \/ ~(BOM_COLUMNS \subseteq df_bom.columns)
    \/ ~(MOV_COLUMNS \subseteq df_mov.columns)
    \/ ~(REP_COLUMNS \subseteq df_rep.columns)

\* C6: with a required column absent from one of the four sheets the run
\* ends in an error, whatever the rows and the reference date.
C6_MissingColumnRaises == ColumnMissing => error # "none"

\* C6 for every required column but the margin, and for the margin when a
\* sales row is in the window.
C6_RaisesButForMarginOfEmptyMonth ==
    (ColumnMissing /\ ("MARGEN_3" \in df_rep.columns \/ WindowRows(df_rep, "SKU", "*", hoy) # <<>>))
        => error # "none"

(***************************************************************************)
(* business_days_count                                                     *)
(***************************************************************************)
\* The number of leap years from year 1 to year y.
LeapsThrough(y) == (y \div 4) - (y \div 100) + (y \div 400)

RECURSIVE DaysBeforeMonth(_, _)
DaysBeforeMonth(y, m) == IF m = 1 THEN 0 ELSE DaysBeforeMonth(y, m - 1) + DaysInMonth(y, m - 1)

\* The date as numpy holds it: days since 1970-01-01.
ToDays(dt) ==
    365 * (dt.year - 1970) + (LeapsThrough(dt.year - 1) - LeapsThrough(1969))
    + DaysBeforeMonth(dt.year, dt.month) + (dt.day - 1)

\* numpy's get_day_of_week: 0 is Monday; 1970-01-05 was a Monday.
DayOfWeek(days) == (days - 4) % 7

WEEKMASK == <<TRUE, TRUE, TRUE, TRUE, TRUE, FALSE, FALSE>>

\* The days of [from, to) that the week mask allows, counted one by one.
RECURSIVE CountDays(_, _)
CountDays(from, to) ==
    IF from >= to THEN 0
    ELSE (IF WEEKMASK[DayOfWeek(from) + 1] THEN 1 ELSE 0) + CountDays(from + 1, to)

\* np.busday_count(begin, end): whole weeks, then the rest day by day; with
\* begin after end the two are swapped and the count negated.  Since numpy
\* 1.25 the swapped range is moved one day on (shifted); before, it is not.
busday_count(begin, end, shifted) ==
    IF begin = end THEN 0
    ELSE LET swapped == begin > end
             move == IF swapped /\ shifted THEN 1 ELSE 0
             b == (IF swapped THEN end ELSE begin) + move
             e == (IF swapped THEN begin ELSE end) + move
             whole_weeks == (e - b) \div 7
             count == whole_weeks * 5 + CountDays(b + whole_weeks * 7, e)
         IN  IF swapped THEN -count ELSE count

\* Mutant of business_days_count: the end day is not counted.
business_days_count_Exclusive(start, end, shifted) ==
    busday_count(ToDays(start), ToDays(end), shifted)

business_days_count(start, end, shifted) ==
    busday_count(ToDays(start), ToDays(PlusOneDay(end)), shifted)

MaxSpan == 16

RECURSIVE DaysAfter(_, _)
DaysAfter(dt, k) == IF k = 0 THEN dt ELSE PlusOneDay(DaysAfter(dt, k - 1))

\* Ranges over the end of a year, the end of a leap February and a month
\* that starts on a Saturday.
CalFirsts == {Date(2023, 12, 24), Date(2024, 2, 22), Date(2024, 6, 1)}

InitCal ==
    /\ df_material = Material0
    /\ df_bom = Bom0
    /\ df_mov = DataFrame(MOV_COLUMNS, <<>>)
    /\ df_rep = DataFrame(REP_COLUMNS, <<>>)
    /\ hoy = Date(2024, 2, 15)
    /\ FirstRun(df_material, df_bom, df_mov, df_rep, hoy)
    /\ \E f \in CalFirsts : \E i, j \in 0..MaxSpan :
            cal = [phase |-> "call", start |-> DaysAfter(f, i), end |-> DaysAfter(f, j)]
    /\ kpi = Idle

BusinessDaysCount ==
    /\ cal.phase = "call"
    /\ \E shifted \in BOOLEAN :
        cal' = [phase |-> "done", start |-> cal.start, end |-> cal.end,
                count |-> business_days_count(cal.start, cal.end, shifted)]
    /\ UNCHANGED <<df_material, df_bom, df_mov, df_rep, hoy, unit_cost, agg, error, kpi>>

NextCal == BusinessDaysCount

SpecCal == InitCal /\ [][NextCal]_vars

\* Zeller's congruence: 0 Saturday, 1 Sunday, 2 Monday, ... 6 Friday.
Zeller(dt) ==
    LET m == IF dt.month < 3 THEN dt.month + 12 ELSE dt.month
        y == IF dt.month < 3 THEN dt.year - 1 ELSE dt.year
    IN  (dt.day + ((13 * (m + 1)) \div 5) + (y % 100) + ((y % 100) \div 4)
            + ((y \div 100) \div 4) + 5 * (y \div 100)) % 7

IsWeekday(dt) == Zeller(dt) \in 2..6

\* The Monday-to-Friday days from a to b, both included, a <= b.
RECURSIVE Weekdays(_, _)
Weekdays(a, b) ==
    (IF IsWeekday(a) THEN 1 ELSE 0) + (IF a = b THEN 0 ELSE Weekdays(PlusOneDay(a), b))

\* C9: for start <= end the count is the number of Monday-to-Friday days
\* from start to end, both included; for end < start it is never positive.
C9_BusinessDays ==
    cal.phase = "done" =>
        IF DateLe(cal.start, cal.end) THEN cal.count = Weekdays(cal.start, cal.end)
        ELSE cal.count <= 0

\* Monday 3 to Friday 7 June 2024: 5.
C9_Witness ==
    /\ cal.phase = "done"
    /\ cal.start = Date(2024, 6, 3)
    /\ cal.end = Date(2024, 6, 7)
    /\ cal.count = 5

(***************************************************************************)
(* Objective and balances (lines 294-295, 365-368)                         *)
(***************************************************************************)
MaxDias == 3

\* Mutant of objetivo_diario: the division without its guard.
objetivo_diario_Unguarded(costo_mensual, dias_habiles_mes) == FDiv(costo_mensual, dias_habiles_mes)

objetivo_diario(costo_mensual, dias_habiles_mes) ==
    IF Truthy(dias_habiles_mes) THEN FDiv(costo_mensual, dias_habiles_mes) ELSE Num(0)

pct(actual, objetivo_a_hoy) ==
    IF Truthy(objetivo_a_hoy) THEN FDiv(actual, objetivo_a_hoy) ELSE Num(0)

InitKpi ==
    /\ df_material = Material0
    /\ df_bom = Bom0
    /\ df_mov = DataFrame(MOV_COLUMNS, <<>>)
    /\ df_rep = DataFrame(REP_COLUMNS, <<>>)
    /\ hoy = Date(2024, 2, 15)
    /\ FirstRun(df_material, df_bom, df_mov, df_rep, hoy)
    /\ cal = Idle
    /\ \E c \in {Num(0), Num(100), Rat(5, 2)} : \E m, t \in 0..MaxDias :
       \E f \in {Num(-3), Num(0), Rat(9, 2), Num(100)} : \E r \in {Num(0), Num(9)} :
            kpi = [phase |-> "inputs", error |-> "none", costo_mensual |-> c,
                   dias_habiles_mes |-> Num(m), dias_habiles_transc |-> Num(t),
                   costo_mo_fabricado |-> f, costo_mo_recuperado |-> r]

\* Lines 294-295.
Objetivo ==
    /\ kpi.phase = "inputs"
    /\ LET diario == objetivo_diario(kpi.costo_mensual, kpi.dias_habiles_mes)
       IN  IF diario = ZeroDivisionError
           THEN kpi' = [kpi EXCEPT !.phase = "raised", !.error = "ZeroDivisionError"]
           ELSE kpi' = [objetivo_diario |-> diario,
                        objetivo_a_hoy |-> FMul(diario, kpi.dias_habiles_transc)]
                       @@ [kpi EXCEPT !.phase = "objetivo"]
    /\ UNCHANGED <<df_material, df_bom, df_mov, df_rep, hoy, unit_cost, agg, error, cal>>

\* Lines 365-368.
Balanzas ==
    /\ kpi.phase = "objetivo"
    /\ LET pf == pct(kpi.costo_mo_fabricado, kpi.objetivo_a_hoy)
           pr == pct(kpi.costo_mo_recuperado, kpi.objetivo_a_hoy)
       IN  IF ZeroDivisionError \in {pf, pr}
           THEN kpi' = [kpi EXCEPT !.phase = "raised", !.error = "ZeroDivisionError"]
           ELSE kpi' = [bal_fabricado |-> FSub(kpi.costo_mo_fabricado, kpi.objetivo_a_hoy),
                        bal_recuperado |-> FSub(kpi.costo_mo_recuperado, kpi.objetivo_a_hoy),
                        pct_fabricado |-> pf, pct_recuperado |-> pr]
                       @@ [kpi EXCEPT !.phase = "done"]
    /\ UNCHANGED <<df_material, df_bom, df_mov, df_rep, hoy, unit_cost, agg, error, cal>>

NextKpi == Objetivo \/ Balanzas

SpecKpi == InitKpi /\ [][NextKpi]_vars

\* C10: nothing raises; the daily objective times the business days of the
\* month is the budget, and is 0 when there are none; the objective to date
\* is the daily objective times the days elapsed; the balance plus the
\* objective to date is the actual; the percentage times the objective to
\* date is the actual, and is 0 when the objective to date is 0.
C10_Objective ==
    /\ kpi.error = "none"
    /\ kpi.phase \in {"objetivo", "done"} =>
        /\ IF kpi.dias_habiles_mes = Num(0) THEN kpi.objetivo_diario = Num(0)
           ELSE FMul(kpi.objetivo_diario, kpi.dias_habiles_mes) = kpi.costo_mensual
        /\ kpi.objetivo_a_hoy = FMul(kpi.objetivo_diario, kpi.dias_habiles_transc)
    /\ kpi.phase = "done" =>
        /\ FAdd(kpi.bal_fabricado, kpi.objetivo_a_hoy) = kpi.costo_mo_fabricado
        /\ FAdd(kpi.bal_recuperado, kpi.objetivo_a_hoy) = kpi.costo_mo_recuperado
        /\ IF kpi.objetivo_a_hoy = Num(0)
           THEN kpi.pct_fabricado = Num(0) /\ kpi.pct_recuperado = Num(0)
           ELSE /\ FMul(kpi.pct_fabricado, kpi.objetivo_a_hoy) = kpi.costo_mo_fabricado
                /\ FMul(kpi.pct_recuperado, kpi.objetivo_a_hoy) = kpi.costo_mo_recuperado

\* A month of no business days, two days elapsed: objective 0, percentage 0
\* and the balance is the actual.
C10_Witness ==
    /\ kpi.phase = "done"
    /\ kpi.dias_habiles_mes = Num(0)
    /\ kpi.dias_habiles_transc = Num(2)
    /\ kpi.costo_mensual = Num(100)
    /\ kpi.objetivo_diario = Num(0)
    /\ kpi.pct_fabricado = Num(0)
    /\ kpi.bal_fabricado = Rat(9, 2)

====
